---- MODULE Spec2Model ----
(***************************************************************************)
(* StatsStore (app/src/lib/stats/stats-store.ts): the launch and commit    *)
(* statistics of the app, and the daily report of them.                    *)
(*                                                                         *)
(* Every invocation of reportStats is a process of its own (a call id in   *)
(* Calls); an invocation runs from one await to the next in one step, and  *)
(* the steps of different invocations interleave freely, as the promises   *)
(* of independent asynchronous callers do on the event loop.               *)
(*                                                                         *)
(* Time passes only where the code looks at it: clock is the latest        *)
(* reading of Date.now(), and a reading returns any later value of Times.   *)
(* pc, now and transport of an invocation that has returned stay as its    *)
(* record; submitted counts, per launch row, the delivered reports that     *)
(* averaged it.                                                            *)
(*                                                                         *)
(* Strings are sequences of one-character strings; a JavaScript number     *)
(* produced by a division is a reduced fraction <<n, d>> (NaN is <<0,0>>). *)
(***************************************************************************)
EXTENDS Integers, Sequences, FiniteSets

----------------------------------------------------------------------------
(* Bounds of the model *)

\* reportStats invocations
MaxCalls == 2
\* recordLaunchStats invocations
MaxLaunches == 1
\* recordCommit invocations
MaxCommits == 1
\* the clock reads up to MaxDays whole intervals after the epoch (and a bit)
MaxDays == 1
\* recordCommit invocations followed through their transaction, step by step
MaxCommitCalls == 2
\* rows of db.launches when the averages are taken on their own
MaxRows == 3

----------------------------------------------------------------------------
(* Program constants *)

DailyStatsReportInterval == 1000 * 60 * 60 * 24

Calls == 1 .. MaxCalls

CommitCalls == 1 .. MaxCommitCalls

\* The independent asynchronous callers of reportStats; each awaits its
\* invocation before it makes the next one.
Callers == { "timer", "event" }

\* The values Date.now() can return in the model (epoch milliseconds).
Times == { d * DailyStatsReportInterval + o : d \in 0 .. MaxDays, o \in {0, 1, 2} }

\* The timings recordLaunchStats is given: <<mainReadyTime, loadTime, rendererReadyTime>>.
LaunchInputs == { <<100, 200, 50>> }

----------------------------------------------------------------------------
(* Strings and numbers *)

Digits == <<"0", "1", "2", "3", "4", "5", "6", "7", "8", "9">>

IsDigit(c) == \E i \in 1 .. 10 : Digits[i] = c

DigitValue(c) == (CHOOSE i \in 1 .. 10 : Digits[i] = c) - 1

IsWhiteSpace(c) == c = " "

RECURSIVE NatToString(_)
NatToString(n) ==
    IF n < 10 THEN << Digits[n + 1] >>
    ELSE Append(NatToString(n \div 10), Digits[(n % 10) + 1])

\* Number.prototype.toString() of an integer
toString(n) == IF n < 0 THEN <<"-">> \o NatToString(0 - n) ELSE NatToString(n)

RECURSIVE SkipWhiteSpace(_)
SkipWhiteSpace(s) ==
    IF s # <<>> /\ IsWhiteSpace(Head(s)) THEN SkipWhiteSpace(Tail(s)) ELSE s

\* the longest prefix of s made of decimal digits
RECURSIVE DigitPrefix(_)
DigitPrefix(s) ==
    IF s # <<>> /\ IsDigit(Head(s)) THEN <<Head(s)>> \o DigitPrefix(Tail(s)) ELSE <<>>

RECURSIVE DigitsValue(_, _)
DigitsValue(s, acc) ==
    IF s = <<>> THEN acc ELSE DigitsValue(Tail(s), acc * 10 + DigitValue(Head(s)))

\* parseInt(s, 10): [nan |-> TRUE] when no number starts the string
parseInt(s) ==
    LET t == SkipWhiteSpace(s)
        neg == t # <<>> /\ Head(t) = "-"
        u == IF t # <<>> /\ Head(t) \in {"-", "+"} THEN Tail(t) ELSE t
        ds == DigitPrefix(u)
    IN  IF ds = <<>> THEN [nan |-> TRUE, value |-> 0]
        ELSE [nan |-> FALSE,
              value |-> IF neg THEN 0 - DigitsValue(ds, 0) ELSE DigitsValue(ds, 0)]

RECURSIVE GCD(_, _)
GCD(a, b) == IF b = 0 THEN a ELSE GCD(b, a % b)

NaN == <<0, 0>>

\* a / b of two non-negative integers, as JavaScript computes it
Divide(a, b) ==
    IF b = 0 THEN (IF a = 0 THEN NaN ELSE <<1, 0>>)
    ELSE LET g == GCD(a, b) IN << a \div g, b \div g >>

----------------------------------------------------------------------------
(* State *)

VARIABLES
    dev,              \* __DEV__ || process.env.TEST_ENV
    clock,            \* the latest reading of Date.now()
    localStorage,     \* the strings stored under LastDailyStatsReportKey: none or one
    launches,         \* db.launches: rows [id, mainReadyTime, loadTime, rendererReadyTime]
    dailyDimensions,  \* db.dailyDimensions: rows [id, commits]
    nextId,           \* the auto-incremented keys of the two tables
    pc,               \* where each reportStats invocation stands
    now,              \* reportStats: const now
    launchesArr,      \* getAverageLaunchStats: const launches
    stats,            \* reportStats: const stats (none or one payload)
    transport,        \* the request of proxyRequest: none, pending, resolved, rejected
    accessed,         \* the collaborator operations each invocation has called
    submitted,        \* per key of db.launches: the delivered reports that averaged the row
    transaction,      \* the recordCommit invocation whose transaction is active, or 0
    commitPc,         \* where each recordCommit invocation stands
    dimensions        \* recordCommit: const dimensions (none or one row)

vars == << dev, clock, localStorage, launches, dailyDimensions, nextId,
           pc, now, launchesArr, stats, transport, accessed, submitted,
           transaction, commitPc, dimensions >>

\* the state of the recordCommit invocations that are followed step by step
commitVars == << transaction, commitPc, dimensions >>

persisted == << localStorage, launches, dailyDimensions >>

----------------------------------------------------------------------------
(* StatsStore *)

\* localStorage.getItem(LastDailyStatsReportKey) is null
IsNull(ls) == ls = {}

getItem(ls) == CHOOSE s \in ls : TRUE

\* (mutant: the stored timestamp is never parsed)
shouldReportDailyStats_unparsed(ls, t) == t - 0 > DailyStatsReportInterval

\* (mutant: without a stored timestamp the last report counts as just made)
shouldReportDailyStats_absentIsNow(ls, t) ==
    LET parsed == IF ~IsNull(ls) /\ Len(getItem(ls)) > 0
                  THEN parseInt(getItem(ls))
                  ELSE [nan |-> FALSE, value |-> t]
        lastDate == IF parsed.nan THEN 0 ELSE parsed.value
    IN  t - lastDate > DailyStatsReportInterval

\* (mutant: the comparison is not strict)
shouldReportDailyStats_ge(ls, t) ==
    LET parsed == IF ~IsNull(ls) /\ Len(getItem(ls)) > 0
                  THEN parseInt(getItem(ls))
                  ELSE [nan |-> FALSE, value |-> 0]
        lastDate == IF parsed.nan THEN 0 ELSE parsed.value
    IN  t - lastDate >= DailyStatsReportInterval

\* shouldReportDailyStats(), with the storage and the clock it reads
shouldReportDailyStats(ls, t) ==
    LET parsed == IF ~IsNull(ls) /\ Len(getItem(ls)) > 0
                  THEN parseInt(getItem(ls))
                  ELSE [nan |-> FALSE, value |-> 0]
        lastDate == IF parsed.nan THEN 0 ELSE parsed.value
    IN  t - lastDate > DailyStatsReportInterval

RECURSIVE Sum(_, _)
Sum(rows, f) ==
    IF rows = {} THEN 0
    ELSE LET r == CHOOSE r \in rows : TRUE IN r[f] + Sum(rows \ {r}, f)

\* (mutant: the totals are divided by one more than the number of rows)
AverageLaunchStats_oneRowMore(rows) ==
    [ mainReadyTime     |-> Divide(Sum(rows, "mainReadyTime"), Cardinality(rows) + 1),
      loadTime          |-> Divide(Sum(rows, "loadTime"), Cardinality(rows) + 1),
      rendererReadyTime |-> Divide(Sum(rows, "rendererReadyTime"), Cardinality(rows) + 1) ]

\* the three averages getAverageLaunchStats returns for the rows it read
AverageLaunchStats(rows) ==
    [ mainReadyTime     |-> Divide(Sum(rows, "mainReadyTime"), Cardinality(rows)),
      loadTime          |-> Divide(Sum(rows, "loadTime"), Cardinality(rows)),
      rendererReadyTime |-> Divide(Sum(rows, "rendererReadyTime"), Cardinality(rows)) ]

\* db.dailyDimensions.limit(1).first(): the row of the least key, or none
FirstDimensions(rows) == { r \in rows : \A o \in rows : r.id <= o.id }

\* { ...launchStats, ...dailyDimensions }: no commits when there is no row
DailyStats(avg, dims) ==
    [ mainReadyTime     |-> avg.mainReadyTime,
      loadTime          |-> avg.loadTime,
      rendererReadyTime |-> avg.rendererReadyTime,
      commits           |-> { r.commits : r \in dims } ]

\* Date.now() never goes back, and the two readings of one synchronous
\* stretch of reportStats are at most a millisecond apart
DateNow(last) == { t \in Times : t >= last }

DateNowAgain(t1) == { t \in Times : t >= t1 /\ t <= t1 + 1 }

\* shouldReportDailyStats() called on its own: const now = Date.now(), and
\* what it returns
callShouldReportDailyStats(p) ==
    /\ pc[p] = "idle"
    /\ \A q \in Calls : q < p => pc[q] # "idle"
    /\ \E t \in DateNow(clock) :
          /\ clock' = t
          /\ now' = [now EXCEPT ![p] = t]
          /\ pc' = [pc EXCEPT ![p] =
                       IF shouldReportDailyStats(localStorage, t) THEN "true" ELSE "false"]
    /\ UNCHANGED << dev, commitVars, persisted, nextId, launchesArr, stats, transport, accessed, submitted >>

\* the invocations that have started and not returned
InFlight == { q \in Calls : pc[q] \notin {"idle", "done"} }

\* (mutant: the dev/test early return is missing)
reportStats_ignoresDev(p) ==
    /\ pc[p] = "idle"
    /\ \A q \in Calls : q < p => pc[q] # "idle"
    /\ Cardinality(InFlight) < Cardinality(Callers)
    /\ \E t1 \in DateNow(clock) :
          IF ~shouldReportDailyStats(localStorage, t1)
          THEN /\ clock' = t1
               /\ pc' = [pc EXCEPT ![p] = "done"]
               /\ UNCHANGED << now, accessed >>
          ELSE \E t2 \in DateNowAgain(t1) :
               /\ clock' = t2
               /\ now' = [now EXCEPT ![p] = t2]
               /\ pc' = [pc EXCEPT ![p] = "toArray"]
               /\ accessed' = [accessed EXCEPT ![p] = @ \cup {"launches.toArray"}]
    /\ UNCHANGED << dev, commitVars, persisted, nextId, launchesArr, stats, transport, submitted >>

\* reportStats() up to its first await: the two early returns, const now, and
\* the call of db.launches.toArray() through getDailyStats
reportStats(p) ==
    /\ pc[p] = "idle"
    /\ \A q \in Calls : q < p => pc[q] # "idle"
    /\ Cardinality(InFlight) < Cardinality(Callers)
    /\ IF dev
       THEN /\ pc' = [pc EXCEPT ![p] = "done"]
            /\ UNCHANGED << clock, now, accessed >>
       ELSE \E t1 \in DateNow(clock) :
               IF ~shouldReportDailyStats(localStorage, t1)
               THEN /\ clock' = t1
                    /\ pc' = [pc EXCEPT ![p] = "done"]
                    /\ UNCHANGED << now, accessed >>
               ELSE \E t2 \in DateNowAgain(t1) :
                    /\ clock' = t2
                    /\ now' = [now EXCEPT ![p] = t2]
                    /\ pc' = [pc EXCEPT ![p] = "toArray"]
                    /\ accessed' = [accessed EXCEPT ![p] = @ \cup {"launches.toArray"}]
    /\ UNCHANGED << dev, commitVars, persisted, nextId, launchesArr, stats, transport, submitted >>

\* (mutant: the row of the least key is left out of the array)
getAverageLaunchStats_skipsFirstRow(p) ==
    /\ pc[p] = "toArray"
    /\ LET read == { r \in launches : \E o \in launches : o.id < r.id }
       IN  /\ launchesArr' = [launchesArr EXCEPT ![p] = read]
           /\ stats' = [stats EXCEPT ![p] = { AverageLaunchStats(read) }]
    /\ pc' = [pc EXCEPT ![p] = "first"]
    /\ accessed' = [accessed EXCEPT ![p] = @ \cup {"dailyDimensions.first"}]
    /\ UNCHANGED << dev, commitVars, clock, persisted, nextId, now, transport, submitted >>

\* getAverageLaunchStats(): toArray() reads the rows, the averages are
\* computed, and getDailyStats goes on to call getDailyDimensions
getAverageLaunchStats(p) ==
    /\ pc[p] = "toArray"
    /\ launchesArr' = [launchesArr EXCEPT ![p] = launches]
    /\ stats' = [stats EXCEPT ![p] = { AverageLaunchStats(launches) }]
    /\ pc' = [pc EXCEPT ![p] = "first"]
    /\ accessed' = [accessed EXCEPT ![p] = @ \cup {"dailyDimensions.first"}]
    /\ UNCHANGED << dev, commitVars, clock, persisted, nextId, now, transport, submitted >>

\* (mutant: the launches are cleared before the request is made)
getDailyDimensions_clearsFirst(p) ==
    /\ pc[p] = "first"
    /\ stats' = [stats EXCEPT ![p] =
                    { DailyStats(avg, FirstDimensions(dailyDimensions)) : avg \in stats[p] }]
    /\ transport' = [transport EXCEPT ![p] = "pending"]
    /\ pc' = [pc EXCEPT ![p] = "proxyRequest"]
    /\ accessed' = [accessed EXCEPT ![p] = @ \cup {"proxyRequest"}]
    /\ launches' = {}
    /\ UNCHANGED << dev, commitVars, clock, localStorage, dailyDimensions, nextId, now, launchesArr,
                    submitted >>

\* getDailyDimensions(): first() reads the row, getDailyStats returns the
\* payload, and reportStats calls proxyRequest
getDailyDimensions(p) ==
    /\ pc[p] = "first"
    /\ stats' = [stats EXCEPT ![p] =
                    { DailyStats(avg, FirstDimensions(dailyDimensions)) : avg \in stats[p] }]
    /\ transport' = [transport EXCEPT ![p] = "pending"]
    /\ pc' = [pc EXCEPT ![p] = "proxyRequest"]
    /\ accessed' = [accessed EXCEPT ![p] = @ \cup {"proxyRequest"}]
    /\ UNCHANGED << dev, commitVars, clock, persisted, nextId, now, launchesArr, submitted >>

\* (mutant: a delivered report starts the commit counter afresh)
proxyRequestResolves_resetsCounters(p) ==
    /\ pc[p] = "proxyRequest"
    /\ transport' = [transport EXCEPT ![p] = "resolved"]
    /\ pc' = [pc EXCEPT ![p] = "clear"]
    /\ accessed' = [accessed EXCEPT ![p] = @ \cup {"launches.clear"}]
    /\ submitted' = [ id \in DOMAIN submitted |->
                        IF \E r \in launchesArr[p] : r.id = id
                        THEN submitted[id] + 1 ELSE submitted[id] ]
    /\ dailyDimensions' = {}
    /\ UNCHANGED << dev, commitVars, clock, localStorage, launches, nextId, now,
                    launchesArr, stats >>

\* proxyRequest resolves: 'Stats reported.', and clearLaunchStats is called
proxyRequestResolves(p) ==
    /\ pc[p] = "proxyRequest"
    /\ transport' = [transport EXCEPT ![p] = "resolved"]
    /\ pc' = [pc EXCEPT ![p] = "clear"]
    /\ accessed' = [accessed EXCEPT ![p] = @ \cup {"launches.clear"}]
    /\ submitted' = [ id \in DOMAIN submitted |->
                        IF \E r \in launchesArr[p] : r.id = id
                        THEN submitted[id] + 1 ELSE submitted[id] ]
    /\ UNCHANGED << dev, commitVars, clock, persisted, nextId, now, launchesArr, stats >>

\* (mutant: the timestamp is written although the request was rejected)
proxyRequestRejects_stamps(p) ==
    /\ pc[p] = "proxyRequest"
    /\ transport' = [transport EXCEPT ![p] = "rejected"]
    /\ pc' = [pc EXCEPT ![p] = "done"]
    /\ launchesArr' = [launchesArr EXCEPT ![p] = {}]
    /\ stats' = [stats EXCEPT ![p] = {}]
    /\ localStorage' = { toString(now[p]) }
    /\ UNCHANGED << dev, commitVars, clock, launches, dailyDimensions, nextId, now,
                    accessed, submitted >>

\* (mutant: the launches are cleared whether or not the request succeeded)
proxyRequestRejects_clears(p) ==
    /\ pc[p] = "proxyRequest"
    /\ transport' = [transport EXCEPT ![p] = "rejected"]
    /\ pc' = [pc EXCEPT ![p] = "done"]
    /\ launchesArr' = [launchesArr EXCEPT ![p] = {}]
    /\ stats' = [stats EXCEPT ![p] = {}]
    /\ launches' = {}
    /\ UNCHANGED << dev, commitVars, clock, localStorage, dailyDimensions, nextId, now, accessed,
                    submitted >>

\* proxyRequest rejects: the catch block logs the error and reportStats returns
\* (pc, now and transport stay as the record of the invocation; its other
\* locals go with it)
proxyRequestRejects(p) ==
    /\ pc[p] = "proxyRequest"
    /\ transport' = [transport EXCEPT ![p] = "rejected"]
    /\ pc' = [pc EXCEPT ![p] = "done"]
    /\ launchesArr' = [launchesArr EXCEPT ![p] = {}]
    /\ stats' = [stats EXCEPT ![p] = {}]
    /\ UNCHANGED << dev, commitVars, clock, persisted, nextId, now, accessed, submitted >>

\* (mutant: only the rows that were averaged are deleted)
clearLaunchStats_onlyRead(p) ==
    /\ pc[p] = "clear"
    /\ launches' = launches \ launchesArr[p]
    /\ pc' = [pc EXCEPT ![p] = "setItem"]
    /\ UNCHANGED << dev, commitVars, clock, localStorage, dailyDimensions, nextId,
                    now, launchesArr, stats, transport, accessed, submitted >>

\* clearLaunchStats(): db.launches.clear() empties the table
clearLaunchStats(p) ==
    /\ pc[p] = "clear"
    /\ launches' = {}
    /\ pc' = [pc EXCEPT ![p] = "setItem"]
    /\ UNCHANGED << dev, commitVars, clock, localStorage, dailyDimensions, nextId,
                    now, launchesArr, stats, transport, accessed, submitted >>

\* (mutant: the timestamp is written under another key)
setItem_otherKey(p) ==
    /\ pc[p] = "setItem"
    /\ pc' = [pc EXCEPT ![p] = "done"]
    /\ accessed' = [accessed EXCEPT ![p] = @ \cup {"localStorage.setItem"}]
    /\ launchesArr' = [launchesArr EXCEPT ![p] = {}]
    /\ stats' = [stats EXCEPT ![p] = {}]
    /\ UNCHANGED << dev, commitVars, clock, persisted, nextId, now, transport, submitted >>

\* after the clear: localStorage.setItem(LastDailyStatsReportKey, now.toString())
setItem(p) ==
    /\ pc[p] = "setItem"
    /\ localStorage' = { toString(now[p]) }
    /\ pc' = [pc EXCEPT ![p] = "done"]
    /\ accessed' = [accessed EXCEPT ![p] = @ \cup {"localStorage.setItem"}]
    /\ launchesArr' = [launchesArr EXCEPT ![p] = {}]
    /\ stats' = [stats EXCEPT ![p] = {}]
    /\ UNCHANGED << dev, commitVars, clock, launches, dailyDimensions, nextId,
                    now, transport, submitted >>

\* recordLaunchStats(stats): db.launches.add(stats)
recordLaunchStats(s) ==
    /\ nextId.launches <= MaxLaunches
    /\ launches' = launches \cup
          { [ id |-> nextId.launches, mainReadyTime |-> s[1],
              loadTime |-> s[2], rendererReadyTime |-> s[3] ] }
    /\ nextId' = [nextId EXCEPT !.launches = @ + 1]
    /\ UNCHANGED << dev, commitVars, clock, localStorage, dailyDimensions,
                    pc, now, launchesArr, stats, transport, accessed, submitted >>

\* recordCommit() as the one step its read-write transaction on
\* db.dailyDimensions makes it for everything outside it
recordCommit ==
    /\ nextId.commits <= MaxCommits
    /\ LET row == FirstDimensions(dailyDimensions)
       IN  IF row = {}
           THEN dailyDimensions' = { [ id |-> 1, commits |-> 1 ] }
           ELSE dailyDimensions' =
                   (dailyDimensions \ row) \cup
                   { [ id |-> d.id, commits |-> d.commits + 1 ] : d \in row }
    /\ nextId' = [nextId EXCEPT !.commits = @ + 1]
    /\ UNCHANGED << dev, commitVars, clock, localStorage, launches,
                    pc, now, launchesArr, stats, transport, accessed, submitted >>

\* the key the table gives a row that is added without one
NextKey(rows) ==
    IF rows = {} THEN 1
    ELSE 1 + (CHOOSE k \in { r.id : r \in rows } : \A r \in rows : r.id <= k)

\* db.dailyDimensions.put(item, key): the row of that key is replaced, and
\* without a key (undefined, here {}) the row is added under the next one
put(rows, item, key) ==
    IF key = {}
    THEN rows \cup { [ id |-> NextKey(rows), commits |-> item.commits ] }
    ELSE { r \in rows : r.id \notin key } \cup
         { [ id |-> k, commits |-> item.commits ] : k \in key }

\* recordCommit() is called: db.transaction('rw', db.dailyDimensions, ...)
\* asks for a read-write transaction on the table
recordCommitCall(c) ==
    /\ commitPc[c] = "idle"
    /\ \A b \in CommitCalls : b < c => commitPc[b] # "idle"
    /\ commitPc' = [commitPc EXCEPT ![c] = "transaction"]
    /\ UNCHANGED << dev, clock, persisted, nextId, pc, now, launchesArr, stats,
                    transport, accessed, submitted, transaction, dimensions >>

\* (mutant: the transaction does not wait for the one that is active)
transactionBegins_noWait(c) ==
    /\ commitPc[c] = "transaction"
    /\ transaction' = c
    /\ commitPc' = [commitPc EXCEPT ![c] = "first"]
    /\ UNCHANGED << dev, clock, persisted, nextId, pc, now, launchesArr, stats,
                    transport, accessed, submitted, dimensions >>

\* the transaction begins, once no other read-write transaction on the table
\* is active, and its function runs up to the yield of limit(1).first()
transactionBegins(c) ==
    /\ commitPc[c] = "transaction"
    /\ transaction = 0
    /\ transaction' = c
    /\ commitPc' = [commitPc EXCEPT ![c] = "first"]
    /\ UNCHANGED << dev, clock, persisted, nextId, pc, now, launchesArr, stats,
                    transport, accessed, submitted, dimensions >>

\* first() resolves: const dimensions, and put is called
transactionFirst(c) ==
    /\ commitPc[c] = "first"
    /\ dimensions' = [dimensions EXCEPT ![c] = FirstDimensions(dailyDimensions)]
    /\ commitPc' = [commitPc EXCEPT ![c] = "put"]
    /\ UNCHANGED << dev, clock, persisted, nextId, pc, now, launchesArr, stats,
                    transport, accessed, submitted, transaction >>

\* (mutant: put is never given the key of the row that was read)
transactionPut_noKey(c) ==
    /\ commitPc[c] = "put"
    /\ LET newDimensions ==
               [ commits |-> IF dimensions[c] # {}
                             THEN (CHOOSE d \in dimensions[c] : TRUE).commits + 1
                             ELSE 1 ]
       IN  dailyDimensions' = put(dailyDimensions, newDimensions, {})
    /\ transaction' = 0
    /\ commitPc' = [commitPc EXCEPT ![c] = "done"]
    /\ dimensions' = [dimensions EXCEPT ![c] = {}]
    /\ UNCHANGED << dev, clock, localStorage, launches, nextId, pc, now, launchesArr,
                    stats, transport, accessed, submitted >>

\* newDimensions is put under the key of the row that was read, or under no
\* key; the transaction commits and recordCommit resolves
transactionPut(c) ==
    /\ commitPc[c] = "put"
    /\ LET newDimensions ==
               [ commits |-> IF dimensions[c] # {}
                             THEN (CHOOSE d \in dimensions[c] : TRUE).commits + 1
                             ELSE 1 ]
       IN  dailyDimensions' =
               put(dailyDimensions, newDimensions, { d.id : d \in dimensions[c] })
    /\ transaction' = 0
    /\ commitPc' = [commitPc EXCEPT ![c] = "done"]
    /\ dimensions' = [dimensions EXCEPT ![c] = {}]
    /\ UNCHANGED << dev, clock, localStorage, launches, nextId, pc, now, launchesArr,
                    stats, transport, accessed, submitted >>

----------------------------------------------------------------------------
(* Specifications *)

NoCalls ==
    /\ pc = [p \in Calls |-> "idle"]
    /\ now = [p \in Calls |-> 0]
    /\ launchesArr = [p \in Calls |-> {}]
    /\ stats = [p \in Calls |-> {}]
    /\ transport = [p \in Calls |-> "none"]
    /\ accessed = [p \in Calls |-> {}]
    /\ transaction = 0
    /\ commitPc = [c \in CommitCalls |-> "idle"]
    /\ dimensions = [c \in CommitCalls |-> {}]

\* A fresh install, or one whose last report was at Interval + 1.
Init ==
    /\ dev \in BOOLEAN
    /\ clock = 0
    /\ localStorage \in { {}, { toString(DailyStatsReportInterval + 1) } }
    /\ launches = {}
    /\ dailyDimensions = {}
    /\ nextId = [ launches |-> 1, commits |-> 1 ]
    /\ submitted = [ id \in 1 .. MaxLaunches |-> 0 ]
    /\ NoCalls

Next ==
    \/ \E p \in Calls : reportStats(p)
    \/ \E p \in Calls : getAverageLaunchStats(p)
    \/ \E p \in Calls : getDailyDimensions(p)
    \/ \E p \in Calls : proxyRequestResolves(p)
    \/ \E p \in Calls : proxyRequestRejects(p)
    \/ \E p \in Calls : clearLaunchStats(p)
    \/ \E p \in Calls : setItem(p)
    \/ \E s \in LaunchInputs : recordLaunchStats(s)
    \/ recordCommit

Spec == Init /\ [][Next]_vars

\* The timestamps and the other strings shouldReportDailyStats may find stored.
StoredNumbers == Times \cup { 0 - 1 }

StoredStrings ==
    { toString(t) : t \in StoredNumbers } \cup
    { <<>>, <<"a", "b", "c">>, <<"1", "2", "a", "b", "c">>, <<" ", "7">>, <<"1", ".", "5">> }

StoredInputs == { {} } \cup { { s } : s \in StoredStrings }

\* shouldReportDailyStats alone, over the stored values and the clock readings
EligInit ==
    /\ dev = FALSE
    /\ clock = 0
    /\ localStorage \in StoredInputs
    /\ launches = {}
    /\ dailyDimensions = {}
    /\ nextId = [ launches |-> 1, commits |-> 1 ]
    /\ submitted = [ id \in 1 .. MaxLaunches |-> 0 ]
    /\ NoCalls

EligNext == \E p \in Calls : callShouldReportDailyStats(p)

EligSpec == EligInit /\ [][EligNext]_vars

\* recordCommit followed through its transaction, next to the report cycles
\* that read the table
CommitInit == Init /\ dev = FALSE

CommitNext ==
    \/ \E c \in CommitCalls : recordCommitCall(c)
    \/ \E c \in CommitCalls : transactionBegins(c)
    \/ \E c \in CommitCalls : transactionFirst(c)
    \/ \E c \in CommitCalls : transactionPut(c)
    \/ \E p \in Calls : reportStats(p)
    \/ \E p \in Calls : getAverageLaunchStats(p)
    \/ \E p \in Calls : getDailyDimensions(p)
    \/ \E p \in Calls : proxyRequestResolves(p)
    \/ \E p \in Calls : proxyRequestRejects(p)
    \/ \E p \in Calls : clearLaunchStats(p)
    \/ \E p \in Calls : setItem(p)

CommitSpec == CommitInit /\ [][CommitNext]_vars

\* The timings of the rows getAverageLaunchStats may find.
LaunchTimings == { <<100, 200, 50>>, <<200, 300, 70>>, <<300, 400, 90>>, <<1, 0, 7>> }

\* The tables getDailyStats may find: up to MaxRows launches under the keys
\* 1, 2, ..., and no row of daily dimensions or one.
StoredLaunches ==
    UNION { { { [ id |-> i, mainReadyTime |-> f[i][1], loadTime |-> f[i][2],
                  rendererReadyTime |-> f[i][3] ] : i \in 1 .. k }
              : f \in [ 1 .. k -> LaunchTimings ] }
            : k \in 0 .. MaxRows }

StoredDimensions == { {}, { [ id |-> 1, commits |-> 0 ] }, { [ id |-> 1, commits |-> 5 ] } }

\* getDailyStats alone: an eligible invocation stands at its first await,
\* over the tables it may find
AggInit ==
    /\ dev = FALSE
    /\ clock = DailyStatsReportInterval + 1
    /\ localStorage = {}
    /\ launches \in StoredLaunches
    /\ dailyDimensions \in StoredDimensions
    /\ nextId = [ launches |-> Cardinality(launches) + 1,
                  commits |-> Sum(dailyDimensions, "commits") + 1 ]
    /\ submitted = [ id \in 1 .. MaxLaunches |-> 0 ]
    /\ pc = [ p \in Calls |-> IF p = 1 THEN "toArray" ELSE "idle" ]
    /\ now = [ p \in Calls |-> IF p = 1 THEN DailyStatsReportInterval + 1 ELSE 0 ]
    /\ launchesArr = [ p \in Calls |-> {} ]
    /\ stats = [ p \in Calls |-> {} ]
    /\ transport = [ p \in Calls |-> "none" ]
    /\ accessed = [ p \in Calls |-> IF p = 1 THEN {"launches.toArray"} ELSE {} ]
    /\ transaction = 0
    /\ commitPc = [ c \in CommitCalls |-> "idle" ]
    /\ dimensions = [ c \in CommitCalls |-> {} ]

AggNext ==
    \/ \E p \in Calls : getAverageLaunchStats(p)
    \/ \E p \in Calls : getDailyDimensions(p)

AggSpec == AggInit /\ [][AggNext]_vars

----------------------------------------------------------------------------
(* Properties *)

\* the invocations whose report the transport has accepted
Delivered == { p \in Calls : transport[p] = "resolved" }

\* the invocations that returned through one of the two early returns
Skipped == { p \in Calls : pc[p] = "done" /\ transport[p] = "none" }

Abs(n) == IF n < 0 THEN 0 - n ELSE n

\* C1: no two delivered reports have captured `now` values within
\* DailyStatsReportInterval of each other, whatever the interleaving of the
\* reportStats invocations.
C1_AtMostOncePerInterval ==
    \A p, q \in Delivered :
        p # q => Abs(now[p] - now[q]) > DailyStatsReportInterval

\* C2: every launch record is averaged into at most one delivered report.
C2_NoDoubleCount == \A id \in DOMAIN submitted : submitted[id] <= 1

\* C3: the step in which an invocation learns that its request was rejected
\* leaves the stored timestamp and the launch records as they were and
\* returns normally; the invocation has called neither the clear nor the
\* timestamp write.
C3_FailureChangesNothing ==
    [][ \A p \in Calls :
          (pc[p] = "proxyRequest" /\ transport'[p] = "rejected") =>
             /\ localStorage' = localStorage
             /\ launches' = launches
             /\ pc'[p] = "done"
             /\ accessed'[p] \cap {"launches.clear", "localStorage.setItem"} = {} ]_vars

\* a rejected invocation has returned and the records it read are still there
C3_Witness ==
    \E p \in Calls :
        /\ pc[p] = "done" /\ transport[p] = "rejected"
        /\ "proxyRequest" \in accessed[p]
        /\ launches # {} /\ submitted[1] = 0

\* C4: the clear of an invocation whose request succeeded leaves db.launches
\* empty, and the rest of the invocation (the timestamp write and the
\* return) adds nothing to it.
C4_SuccessClearsLaunches ==
    [][ \A p \in Calls :
          /\ (pc[p] = "clear" /\ pc'[p] # "clear") =>
                 (transport[p] = "resolved" /\ launches' = {})
          /\ (pc[p] = "setItem" /\ pc'[p] # "setItem") =>
                 (pc'[p] = "done" /\ transport'[p] = "resolved" /\ launches' = launches) ]_vars

\* a delivered invocation has returned, the record it averaged is gone
C4_Witness ==
    \E p \in Calls :
        /\ pc[p] = "done" /\ transport[p] = "resolved"
        /\ submitted[1] = 1 /\ launches = {}

\* C5: a step of an invocation changes the stored state only when it is the
\* clear or the timestamp write of an invocation whose request has already
\* succeeded; the clear is called only after the request resolved, and the
\* timestamp is written only after the clear.
C5_MutationAfterDelivery ==
    [][ \A p \in Calls :
          /\ (pc'[p] # pc[p] /\ persisted' # persisted) =>
                 (transport[p] = "resolved" /\ pc[p] \in {"clear", "setItem"})
          /\ "launches.clear" \in accessed'[p] => transport'[p] = "resolved"
          /\ "localStorage.setItem" \in accessed'[p] =>
                 ("launches.clear" \in accessed[p] /\ pc[p] = "setItem") \/
                 "localStorage.setItem" \in accessed[p] ]_vars

\* an invocation stands between its clear and its timestamp write: the
\* records are gone and the timestamp is still the old one
C5_Witness ==
    \E p \in Calls :
        /\ pc[p] = "setItem" /\ transport[p] = "resolved"
        /\ submitted[1] = 1 /\ launches = {} /\ IsNull(localStorage)

\* C6: for every stored decimal timestamp last and every reading now,
\* shouldReportDailyStats returns true exactly when
\* now - last > DailyStatsReportInterval.
C6_EligibleIffStrictlyAfterInterval ==
    \A p \in Calls : \A last \in StoredNumbers :
        (pc[p] \in {"true", "false"} /\ localStorage = { toString(last) }) =>
            (pc[p] = "true" <=> now[p] - last > DailyStatsReportInterval)

\* both answers have been given against a stored timestamp
C6_Witness ==
    /\ localStorage = { toString(1) }
    /\ \E p, q \in Calls :
          /\ pc[p] = "false" /\ now[p] = DailyStatsReportInterval + 1
          /\ pc[q] = "true" /\ now[q] = DailyStatsReportInterval + 2

\* C7 as stated: false below last + DailyStatsReportInterval, true at it and
\* above it.
C7_ThresholdAtInterval ==
    \A p \in Calls : \A last \in StoredNumbers :
        (pc[p] \in {"true", "false"} /\ localStorage = { toString(last) }) =>
            /\ now[p] < last + DailyStatsReportInterval => pc[p] = "false"
            /\ now[p] >= last + DailyStatsReportInterval => pc[p] = "true"

\* C7 as amended: for a fixed stored timestamp the answer is false for every
\* now up to and including last + DailyStatsReportInterval and true for
\* every later now; the least eligible now is last + DailyStatsReportInterval + 1.
C7_ThresholdAfterInterval ==
    \A p \in Calls : \A last \in StoredNumbers :
        (pc[p] \in {"true", "false"} /\ localStorage = { toString(last) }) =>
            /\ now[p] <= last + DailyStatsReportInterval => pc[p] = "false"
            /\ now[p] >= last + DailyStatsReportInterval + 1 => pc[p] = "true"

\* the answer exactly one interval after the stored timestamp, and one
\* millisecond later
C7_Witness ==
    /\ localStorage = { toString(0) }
    /\ \E p, q \in Calls :
          /\ pc[p] = "false" /\ now[p] = DailyStatsReportInterval
          /\ pc[q] = "true" /\ now[q] = DailyStatsReportInterval + 1

\* no timestamp was ever stored, or an empty or a zero one
FirstEver(ls) == IsNull(ls) \/ ls = { <<>> } \/ ls = { toString(0) }

\* C8 as stated: a first-ever call is eligible whatever now is.
C8_FirstEverAlwaysEligible ==
    \A p \in Calls :
        (pc[p] \in {"true", "false"} /\ FirstEver(localStorage)) => pc[p] = "true"

\* C8 as amended: a first-ever call is eligible for every now greater than
\* DailyStatsReportInterval, and for no other: it is not eligible while the
\* clock reads at most 24 hours after the epoch.
C8_FirstEverEligibleAfterInterval ==
    \A p \in Calls :
        (pc[p] \in {"true", "false"} /\ FirstEver(localStorage)) =>
            (pc[p] = "true" <=> now[p] > DailyStatsReportInterval)

\* with nothing stored: the answer before and after the first interval
C8_Witness ==
    /\ IsNull(localStorage)
    /\ \E p, q \in Calls :
          /\ pc[p] = "false" /\ now[p] = 1
          /\ pc[q] = "true" /\ now[q] = DailyStatsReportInterval + 1

\* C9: when a delivered invocation returns, the timestamp it leaves makes a
\* call one millisecond after its `now` not eligible and a call at
\* now + DailyStatsReportInterval + 1 eligible; an invocation that finds the
\* clock at now + 1 with that timestamp stored makes no request.
C9_NextEligibilityAfterSuccess ==
    [][ /\ \A p \in Calls :
              (pc[p] = "setItem" /\ pc'[p] = "done") =>
                  /\ ~shouldReportDailyStats(localStorage', now[p] + 1)
                  /\ shouldReportDailyStats(localStorage',
                                            now[p] + DailyStatsReportInterval + 1)
        /\ \A p, q \in Calls :
              ( /\ pc[p] = "done" /\ transport[p] = "resolved"
                /\ localStorage = { toString(now[p]) }
                /\ pc[q] = "idle" /\ pc'[q] # "idle" /\ clock' = now[p] + 1 ) =>
                  (pc'[q] = "done" /\ transport'[q] = "none") ]_vars

\* a report was delivered at now, and the invocation made at now + 1 returned
\* without a request
C9_Witness ==
    \E p, q \in Calls :
        /\ pc[p] = "done" /\ transport[p] = "resolved"
        /\ localStorage = { toString(now[p]) }
        /\ q \in Skipped /\ clock = now[p] + 1

\* C10: an invocation made with the dev/test flag set, or at a reading of the
\* clock at which it is not eligible, returns at once: no request, no call of
\* the database, and the launches, the daily dimensions and the stored
\* timestamp stay as they were; with the flag set this is so whatever is
\* stored and whatever the clock reads.
C10_NoOpWhenDevOrNotEligible ==
    [][ \A p \in Calls :
          ( /\ pc[p] = "idle" /\ pc'[p] # "idle"
            /\ dev \/ ~shouldReportDailyStats(localStorage, clock') ) =>
              /\ pc'[p] = "done"
              /\ transport'[p] = "none"
              /\ accessed'[p] = {}
              /\ persisted' = persisted ]_vars

\* in dev or test, with nothing stored and launches and commits recorded,
\* every invocation has returned without a request
C10_Witness ==
    /\ dev /\ IsNull(localStorage)
    /\ launches # {} /\ dailyDimensions # {}
    /\ Skipped = Calls

\* the recordCommit invocations that have resolved
Committed == { c \in CommitCalls : commitPc[c] = "done" }

\* C11: when a recordCommit runs with no other one under way, it leaves
\* exactly one DailyCounters row; starting without a row, the first call
\* creates it with commits = 1 and the K-th call leaves commits = K in that
\* same row (same key as before the call).
C11_SequentialCommitsOneRow ==
    [][ \A c \in CommitCalls :
          ( /\ commitPc[c] = "put" /\ commitPc'[c] = "done"
            /\ \A b \in CommitCalls \ {c} : commitPc[b] \in {"idle", "done"} ) =>
              /\ Cardinality(dailyDimensions') = 1
              /\ \A r \in dailyDimensions' :
                    /\ r.commits = Cardinality(Committed) + 1
                    /\ Committed = {} => (dailyDimensions = {} /\ r.commits = 1)
                    /\ Committed # {} => { o.id : o \in dailyDimensions } = { r.id } ]_vars

\* every call has resolved, one after the other, and the single row counts them
C11_Witness ==
    /\ Committed = CommitCalls
    /\ Cardinality(CommitCalls) >= 2
    /\ dailyDimensions = { [ id |-> 1, commits |-> Cardinality(CommitCalls) ] }

\* C12: under every interleaving of recordCommit invocations and report
\* cycles, the commits counter equals the number of recordCommit invocations
\* that have resolved (0 while there is no row), and at most one invocation
\* is between its read and its write.
C12_NoLostCommit ==
    /\ Cardinality(dailyDimensions) <= 1
    /\ \A r \in dailyDimensions : r.commits = Cardinality(Committed)
    /\ dailyDimensions = {} => Committed = {}
    /\ Cardinality({ c \in CommitCalls : commitPc[c] \in {"first", "put"} }) <= 1

\* the second invocation overtook the first, which waited for the
\* transaction and now writes on top of it, while a report is in flight
C12_Witness ==
    /\ commitPc[1] = "put" /\ commitPc[2] = "done"
    /\ dimensions[1] = { [ id |-> 1, commits |-> 1 ] }
    /\ \E p \in Calls : pc[p] = "proxyRequest"

\* C13: no step of a reportStats invocation changes db.dailyDimensions,
\* whatever its outcome; the steps that build the snapshot change neither
\* table; and the only change an invocation makes to db.launches is to empty
\* it in the clear that follows its delivered request.
C13_ReportLeavesCountersAlone ==
    [][ \A p \in Calls :
          pc'[p] # pc[p] =>
             /\ dailyDimensions' = dailyDimensions
             /\ pc[p] \in {"idle", "toArray", "first"} => launches' = launches
             /\ launches' # launches =>
                   (pc[p] = "clear" /\ transport[p] = "resolved" /\ launches' = {}) ]_vars

\* a delivered invocation has returned: the record it averaged is gone and
\* the commit counter is still there
C13_Witness ==
    \E p \in Calls :
        /\ pc[p] = "done" /\ transport[p] = "resolved"
        /\ submitted[1] = 1 /\ launches = {}
        /\ dailyDimensions = { [ id |-> 1, commits |-> 1 ] }
        /\ stats[p] = {}

\* the total of one timing over the rows an invocation read, key by key
Total(p, f) ==
    LET T[i \in 0 .. MaxRows] ==
            IF i = 0 THEN 0
            ELSE T[i - 1] + (IF \E r \in launchesArr[p] : r.id = i
                             THEN (CHOOSE r \in launchesArr[p] : r.id = i)[f] ELSE 0)
    IN  T[MaxRows]

\* C14: for every non-empty set of N launch records, each of the three
\* timings of the snapshot is the exact mean (total / N) over exactly the
\* records in the table at the read; with one record it is that record's
\* value; and the records (100,200,50), (200,300,70), (300,400,90) give
\* 200, 300 and 70.
C14_ExactMean ==
    \A p \in Calls : \A s \in stats[p] :
        launchesArr[p] # {} =>
            /\ launchesArr[p] = launches
            /\ \A f \in {"mainReadyTime", "loadTime", "rendererReadyTime"} :
                  /\ s[f][2] > 0
                  /\ s[f][1] * Cardinality(launchesArr[p]) = s[f][2] * Total(p, f)
                  /\ \A r \in launchesArr[p] :
                        launchesArr[p] = {r} => s[f] = << r[f], 1 >>
            /\ { << r.mainReadyTime, r.loadTime, r.rendererReadyTime >> : r \in launchesArr[p] }
                   = { <<100, 200, 50>>, <<200, 300, 70>>, <<300, 400, 90>> }
               /\ Cardinality(launchesArr[p]) = 3
               => ( /\ s.mainReadyTime = <<200, 1>>
                    /\ s.loadTime = <<300, 1>>
                    /\ s.rendererReadyTime = <<70, 1>> )

\* the payload of the example: three launches and five commits
C14_Witness ==
    \E p \in Calls :
        /\ pc[p] = "proxyRequest"
        /\ Cardinality(launchesArr[p]) = 3
        /\ stats[p] = { [ mainReadyTime |-> <<200, 1>>, loadTime |-> <<300, 1>>,
                          rendererReadyTime |-> <<70, 1>>, commits |-> {5} ] }

\* C15: the payload an eligible invocation submits after it read no launch
\* record has its three timings equal to 0 (or no request is made): never
\* the result of a division by zero.
C15_EmptySetHandled ==
    \A p \in Calls :
        (pc[p] = "proxyRequest" /\ launchesArr[p] = {}) =>
            \A s \in stats[p] :
                /\ s.mainReadyTime = <<0, 1>>
                /\ s.loadTime = <<0, 1>>
                /\ s.rendererReadyTime = <<0, 1>>

\* C16: the commits of the submitted payload is the commits of the row of
\* daily dimensions at the read, and 0 when no row was ever created.
C16_CommitsPassedThrough ==
    \A p \in Calls :
        pc[p] = "proxyRequest" =>
            \A s \in stats[p] :
                s.commits = IF dailyDimensions = {} THEN {0}
                            ELSE { r.commits : r \in dailyDimensions }

\* a stored string that is not, as a whole, a decimal number
IsDecimalNumber(str) ==
    LET u == IF str # <<>> /\ Head(str) = "-" THEN Tail(str) ELSE str
    IN  u # <<>> /\ \A i \in 1 .. Len(u) : IsDigit(u[i])

\* C17: when the stored value is not entirely a decimal number (a numeric
\* prefix followed by other characters included), shouldReportDailyStats
\* answers as it does with no stored value: true exactly when now is more
\* than DailyStatsReportInterval after 0.
C17_CorruptTreatedAsZero ==
    \A p \in Calls :
        ( /\ pc[p] \in {"true", "false"}
          /\ \E str \in localStorage : ~IsDecimalNumber(str) ) =>
            (pc[p] = "true" <=> now[p] - 0 > DailyStatsReportInterval)

\* C18: while no report has been delivered (so none lies between a rejected
\* invocation and a later one), the return of an invocation whose request
\* was rejected leaves every record it read in db.launches and a timestamp
\* under which every later reading of the clock is eligible; a reportStats
\* made after it goes on to build its snapshot; no record leaves the table;
\* and a snapshot is taken over every record in the table.
C18_RetryAfterFailure ==
    [][ Delivered = {} =>
          /\ launches \subseteq launches'
          /\ \A p \in Calls :
                (pc[p] = "proxyRequest" /\ transport'[p] = "rejected") =>
                   /\ launchesArr[p] \subseteq launches'
                   /\ \A t \in DateNow(clock') : shouldReportDailyStats(localStorage', t)
          /\ \A p, q \in Calls :
                ( /\ pc[p] = "done" /\ transport[p] = "rejected"
                  /\ pc[q] = "idle" /\ pc'[q] # "idle" ) =>
                    (pc'[q] = "toArray" /\ now'[q] >= now[p])
          /\ \A q \in Calls :
                (pc[q] = "toArray" /\ pc'[q] = "first") =>
                    launches \subseteq launchesArr'[q] ]_vars

\* the request of the first invocation was rejected, and the second one,
\* made after it, has read the record that is still there
C18_Witness ==
    /\ pc[1] = "done" /\ transport[1] = "rejected"
    /\ pc[2] = "first" /\ now[2] > now[1]
    /\ launchesArr[2] = launches /\ launches # {}
    /\ Delivered = {} /\ IsNull(localStorage)

\* the number stored as the last report, 0 when there is none
StoredTime(ls) == IF IsNull(ls) THEN 0 ELSE parseInt(getItem(ls)).value

\* C19: every write of the timestamp stores a value that is at least the
\* value it replaces, also when invocations overlap.
C19_TimestampNeverDecreases ==
    [][ StoredTime(localStorage') >= StoredTime(localStorage) ]_vars

\* C20 as stated: every record the clear of an invocation removes was read
\* by that invocation, so was averaged into the report it delivered.
C20_RemovedWereAveraged ==
    [][ \A p \in Calls :
          (pc[p] = "clear" /\ pc'[p] = "setItem") =>
              launches \ launches' \subseteq launchesArr[p] ]_vars

\* C20 as amended: records leave db.launches only in the clear of an
\* invocation whose request was delivered; the snapshot of an invocation
\* holds every record in the table at its read; and from the read to the
\* clear, the records in the table that the snapshot lacks are the ones
\* recordLaunchStats added since the read. The clear removes those too.
C20_RemovedWereAveragedOrAddedSince ==
    [][ \A p \in Calls :
          /\ \A r \in launches \ launches' :
                \E q \in Calls :
                    pc[q] = "clear" /\ pc'[q] = "setItem" /\ transport[q] = "resolved"
          /\ (pc[p] = "toArray" /\ pc'[p] = "first") => launchesArr'[p] = launches'
          /\ ( /\ pc[p] \in {"first", "proxyRequest", "clear"}
               /\ pc'[p] \in {"first", "proxyRequest", "clear"} ) =>
                 \A r \in launches' \ launchesArr'[p] :
                     \/ r \in launches \ launchesArr[p]
                     \/ r \notin launches /\ r.id = nextId.launches ]_vars

\* an invocation has cleared, after its delivered request, a record that
\* was added after its read: no report has averaged it
C20_Witness ==
    \E p \in Calls :
        /\ pc[p] = "setItem" /\ transport[p] = "resolved"
        /\ launchesArr[p] = {}
        /\ nextId.launches = 2 /\ launches = {} /\ submitted[1] = 0

====
